---- MODULE Spec2Model ----
(***************************************************************************)
(* Festive Style Mixer: the generation orchestration of src/App.tsx (the   *)
(* App component's state and handlers), src/services/geminiService.ts      *)
(* (checkApiKey, requestApiKey, generateComposite, generateLiveVideo) and  *)
(* the button guards of src/components/ResultCard.tsx.                     *)
(*                                                                         *)
(* Strings are sequences of tokens, so that trim(), includes(), split()    *)
(* and substring() are computed and not assumed.  A nullable value is a    *)
(* sequence of length at most one: Null is <<>>, a held value v is <<v>>.  *)
(***************************************************************************)
EXTENDS Integers, Sequences, FiniteSets, TLC

\* ------------------------------------------------------------------ bounds
\* Most parts in one image-endpoint response.
MaxParts == 2
\* Most image calls, and most video jobs, the model lets be in flight together.
MaxInFlight == 2
\* Most key-selection dialogs the model lets be open together.
MaxConnects == 1
\* A video job that has not reported done before this many status queries
\* never does; the poll counters stop there.
MaxPolls == 4

\* ----------------------------------------------------------- nullable values
Null == <<>>
Some(v) == <<v>>
IsNull(o) == o = <<>>
Get(o) == o[1]

\* ------------------------------------------------------------------ strings
\* s.includes(sub): sub occurs in s as a contiguous run.
Includes(s, sub) ==
  \E i \in 0..(Len(s) - Len(sub)) : SubSeq(s, i + 1, i + Len(sub)) = sub

IsSpace(c) == c = " "

RECURSIVE TrimStart(_)
TrimStart(s) ==
  IF s = <<>> THEN <<>>
  ELSE IF IsSpace(Head(s)) THEN TrimStart(Tail(s)) ELSE s

RECURSIVE TrimEnd(_)
TrimEnd(s) ==
  IF s = <<>> THEN <<>>
  ELSE IF IsSpace(s[Len(s)]) THEN TrimEnd(SubSeq(s, 1, Len(s) - 1)) ELSE s

\* String.prototype.trim
Trim(s) == TrimEnd(TrimStart(s))

\* JavaScript truthiness of a string: the empty string is falsy.
Truthy(s) == s # <<>>

\* s.indexOf(tok), 1-based; 0 when tok does not occur.
IndexOf(s, tok) ==
  IF \E i \in 1..Len(s) : s[i] = tok
  THEN CHOOSE i \in 1..Len(s) : s[i] = tok /\ \A j \in 1..(i - 1) : s[j] # tok
  ELSE 0

\* Faulty variant: s.split(tok)[0], what lies before the first tok.
SplitFirst(s, tok) ==
  LET i == IndexOf(s, tok)
  IN  IF i = 0 THEN Some(s) ELSE Some(SubSeq(s, 1, i - 1))

\* s.split(tok)[1]: what lies between the first and the second tok.
SplitSecond(s, tok) ==
  LET i == IndexOf(s, tok)
      rest == SubSeq(s, i + 1, Len(s))
      j == IndexOf(rest, tok)
  IN  IF i = 0 THEN Null
      ELSE IF j = 0 THEN Some(rest) ELSE Some(SubSeq(rest, 1, j - 1))

\* ------------------------------------------------------------ error messages
EntityNotFound == <<"Requested entity was not found">>
API_KEY_INVALID == <<"API_KEY_INVALID">>
NoImageData == <<"No image data found in response">>
NoVideoUri == <<"No video URI found">>

\* Messages the remote services or the network reject a call with.
RawMessages ==
  { EntityNotFound,
    <<"404", "Requested entity was not found", ".">>,
    <<"Network error">>,
    API_KEY_INVALID }

\* Notices the controller shows.
MsgConnectFailed == <<"Failed to connect to AI Studio.">>
MsgSessionExpired == <<"API Session expired or invalid. Please reconnect.">>
MsgGenerationFailed == <<"Something went wrong during generation. Please try again.">>
MsgVideoSessionExpired == <<"API Session expired during video generation. Please reconnect.">>
MsgVideoFailed == <<"Failed to generate video. Please try again.">>

\* ------------------------------------------------------------- input domains
\* UploadedImage: the fields the services read.
Images ==
  { [data |-> "imgA", mimeType |-> "image/png"],
    [data |-> "imgB", mimeType |-> "image/jpeg"] }

\* Scene descriptions: empty, blank, and two that differ after trimming.
Scenes == { <<>>, <<" ">>, <<"snow">>, <<" ", "fire">> }

\* Texts a text part can carry.
Texts ==
  { <<>>,
    API_KEY_INVALID,
    <<"I cannot generate this image">>,
    <<"Sorry:", "Requested entity was not found">>,
    NoImageData }

\* Inline payloads the image endpoint returns.
Payloads == { "AAAA", "BBBB" }

InlinePart(d, mt) ==
  [inlineData |-> Some([mimeType |-> mt, data |-> d]), text |-> Null]
TextPart(t) == [inlineData |-> Null, text |-> Some(t)]
\* A part that is neither text nor inline data (a function call, a thought).
OtherPart == [inlineData |-> Null, text |-> Null]

Parts ==
  { InlinePart(d, "image/jpeg") : d \in Payloads }
    \cup { TextPart(t) : t \in Texts }
    \cup { OtherPart }

RECURSIVE SeqsUpTo(_, _)
SeqsUpTo(S, n) ==
  IF n = 0 THEN { <<>> }
  ELSE LET shorter == SeqsUpTo(S, n - 1)
       IN  shorter \cup { Append(s, x) : s \in shorter, x \in S }

\* A response is its candidate list; a candidate is its part list.
Responses ==
  { <<>> } \cup { <<parts>> : parts \in SeqsUpTo(Parts, MaxParts) }

\* What the image endpoint can answer a call with.
AllImageOutcomes ==
  { [kind |-> "response", candidates |-> r] : r \in Responses }
    \cup { [kind |-> "reject", message |-> m] : m \in RawMessages }

\* The answers the controller's runs are explored with.
ImageOutcomes ==
  { [kind |-> "response", candidates |-> <<parts>>] : parts \in
      { <<InlinePart("AAAA", "image/jpeg")>>,
        <<TextPart(<<"I cannot generate this image">>), InlinePart("BBBB", "image/jpeg")>>,
        <<TextPart(<<"I cannot generate this image">>)>>,
        <<TextPart(<<"Sorry:", "Requested entity was not found">>)>>,
        <<>> } }
    \cup { [kind |-> "reject", message |-> m] : m \in RawMessages }

\* ------------------------------------------------------ geminiService.ts
Returned(v) == [ok |-> TRUE, value |-> v]
Thrown(m) == [ok |-> FALSE, message |-> m]

\* The catch block shared by both services: an error whose message includes
\* the entity-not-found signature is replaced by Error("API_KEY_INVALID"),
\* any other error is rethrown as it is.
ClassifyError(message) ==
  IF Truthy(message) /\ Includes(message, EntityNotFound)
  THEN API_KEY_INVALID
  ELSE message

\* Faulty variant: the payload is left out of the data URL.
DataUrlNoPayload(data) == <<"data", ":", "image/png", ";", "base64", ",">>

\* `data:image/png;base64,${data}`
DataUrl(data) == <<"data", ":", "image/png", ";", "base64", ",", data>>

\* Faulty variant: the subject is sent before the garment.
CompositeRequestSwapped(clothesImage, personImage, sceneDescription) ==
  LET hasScene == Truthy(sceneDescription) /\ Len(Trim(sceneDescription)) > 0
  IN  [ parts |->
          << [text |-> [hasScene |-> hasScene,
                        scene |-> IF hasScene THEN sceneDescription ELSE <<>>]],
             [inlineData |-> [mimeType |-> personImage.mimeType,
                              data |-> personImage.data]],
             [inlineData |-> [mimeType |-> clothesImage.mimeType,
                              data |-> clothesImage.data]] >>,
        imageSize |-> "1K",
        aspectRatio |-> "3:4" ]

\* The contents sent to the image endpoint.
CompositeRequest(clothesImage, personImage, sceneDescription) ==
  LET hasScene == Truthy(sceneDescription) /\ Len(Trim(sceneDescription)) > 0
  IN  [ parts |->
          << [text |-> [hasScene |-> hasScene,
                        scene |-> IF hasScene THEN sceneDescription ELSE <<>>]],
             [inlineData |-> [mimeType |-> clothesImage.mimeType,
                              data |-> clothesImage.data]],
             [inlineData |-> [mimeType |-> personImage.mimeType,
                              data |-> personImage.data]] >>,
        imageSize |-> "1K",
        aspectRatio |-> "3:4" ]

\* response.candidates?.[0]?.content?.parts || []
ResponseParts(candidates) ==
  IF Len(candidates) = 0 THEN <<>> ELSE candidates[1]

HasInline(parts) == \E i \in 1..Len(parts) : ~IsNull(parts[i].inlineData)

\* Faulty variant: the loop keeps going and the last inline part wins.
LastInline(parts) ==
  parts[CHOOSE i \in 1..Len(parts) :
          /\ ~IsNull(parts[i].inlineData)
          /\ \A j \in (i + 1)..Len(parts) : IsNull(parts[j].inlineData)]

\* The part the for-loop returns from: the first one with inlineData.
FirstInline(parts) ==
  parts[CHOOSE i \in 1..Len(parts) :
          /\ ~IsNull(parts[i].inlineData)
          /\ \A j \in 1..(i - 1) : IsNull(parts[j].inlineData)]

\* Faulty variant: an empty text counts as a text part.
HasTextField(part) == ~IsNull(part.text)

\* p.text is truthy: present and not the empty string.
HasText(part) == ~IsNull(part.text) /\ Truthy(Get(part.text))

\* parts.find(p => p.text)
FindTextPart(parts) ==
  IF \E i \in 1..Len(parts) : HasText(parts[i])
  THEN Some(parts[CHOOSE i \in 1..Len(parts) :
                    /\ HasText(parts[i])
                    /\ \A j \in 1..(i - 1) : ~HasText(parts[j])])
  ELSE Null

\* The try block of generateComposite after the call has resolved.
InterpretResponse(candidates) ==
  LET parts == ResponseParts(candidates)
      textPart == FindTextPart(parts)
  IN  IF HasInline(parts)
      THEN Returned(DataUrl(Get(FirstInline(parts).inlineData).data))
      ELSE IF ~IsNull(textPart)
      THEN Thrown(Get(Get(textPart).text))
      ELSE Thrown(NoImageData)

\* The error raised inside the try block, if any, before the catch block.
RaisedInComposite(outcome) ==
  IF outcome.kind = "reject" THEN Some(outcome.message)
  ELSE LET r == InterpretResponse(outcome.candidates)
       IN  IF r.ok THEN Null ELSE Some(r.message)

\* generateComposite, from the settled call to what it returns or throws.
generateComposite(outcome) ==
  LET raised == RaisedInComposite(outcome)
  IN  IF IsNull(raised)
      THEN InterpretResponse(outcome.candidates)
      ELSE Thrown(ClassifyError(Get(raised)))

\* "Create a 'Live Photo' style video ... ${contextPrompt}"
VideoPrompt(sceneDescription) ==
  LET contextPrompt ==
        IF Truthy(sceneDescription) /\ Len(Trim(sceneDescription)) > 0
        THEN sceneDescription
        ELSE <<"Keep the original background atmosphere and lighting.">>
  IN  <<"Create a 'Live Photo' style video">> \o contextPrompt

\* imageSrc.substring(imageSrc.indexOf(':') + 1, imageSrc.indexOf(';'))
MimeTypeOf(imageSrc) ==
  SubSeq(imageSrc, IndexOf(imageSrc, ":") + 1, IndexOf(imageSrc, ";") - 1)

\* The job generateLiveVideo submits to the video endpoint.
VideoRequest(imageSrc, sceneDescription) ==
  [ prompt |-> VideoPrompt(sceneDescription),
    imageBytes |-> SplitSecond(imageSrc, ","),
    mimeType |-> MimeTypeOf(imageSrc),
    numberOfVideos |-> 1,
    resolution |-> "720p",
    aspectRatio |-> "9:16" ]

\* Faulty variant: the loop never tests done and keeps querying.
PollLoopIgnoresDone(operation) == TRUE

\* while (!operation.done)
PollLoopContinues(operation) == ~operation.done

\* Faulty variant: a link is read from every operation.
DownloadLinkAlways(operation) == Some(<<"uri">>)

\* operation.response?.generatedVideos?.[0]?.video?.uri
DownloadLink(operation) == IF operation.hasUri THEN Some(<<"uri">>) ELSE Null

\* Faulty variant: the object URL is made of an empty blob.
ObjectUrlOfNothing(body) == <<"blob", ":", "">>

\* URL.createObjectURL(blob)
ObjectUrl(body) == <<"blob", ":", body>>

\* What the video endpoint answers a submission or a status query with.
VideoOutcomes ==
  { [kind |-> "operation", done |-> d, hasUri |-> u] :
      d \in BOOLEAN, u \in BOOLEAN }
    \cup { [kind |-> "reject", message |-> m] : m \in RawMessages }

\* What the retrieval fetch settles with: a response (successful or not) or
\* a network failure.
FetchOutcomes ==
  { [kind |-> "response", ok |-> TRUE, body |-> "video-bytes"],
    [kind |-> "response", ok |-> FALSE, body |-> "error-body"],
    [kind |-> "reject", message |-> <<"Failed to fetch">>] }

\* ------------------------------------------------------------------ state
VARIABLES
  hasKey,        \* App: useState<boolean>(false)
  clothesImg,    \* App: UploadedImage | null
  personImg,     \* App: UploadedImage | null
  scenePrompt,   \* App: string
  status,        \* App: AppStatus
  resultUrl,     \* App: string | null
  videoUrl,      \* App: string | null
  isAnimating,   \* App: boolean
  errorMsg,      \* App: string | null
  verifyKey,     \* the mount effect: "pending" until checkApiKey settles
  connects,      \* openSelectKey calls awaited by handleConnect
  composites,    \* generateContent calls awaited by handleGenerate
  videos,        \* the generateLiveVideo calls awaited by handleAnimate
  resultScene,   \* the description the last accepted composition was sent
                 \* with (kept for the record, never read by the program)
  event          \* the last request or settlement and what it carried

vars ==
  << hasKey, clothesImg, personImg, scenePrompt, status, resultUrl, videoUrl,
     isAnimating, errorMsg, verifyKey, connects, composites, videos,
     resultScene, event >>

assetVars == << clothesImg, personImg, scenePrompt >>
resultVars ==
  << status, resultUrl, videoUrl, isAnimating, errorMsg, resultScene >>
taskVars == << verifyKey, connects, composites, videos >>

NoEvent == [op |-> "none"]

Init ==
  /\ hasKey = FALSE
  /\ clothesImg = Null
  /\ personImg = Null
  /\ scenePrompt = <<>>
  /\ status = "IDLE"
  /\ resultUrl = Null
  /\ videoUrl = Null
  /\ isAnimating = FALSE
  /\ errorMsg = Null
  /\ verifyKey = "pending"
  /\ connects = 0
  /\ composites = 0
  /\ videos = <<>>
  /\ resultScene = <<>>
  /\ event = NoEvent

\* ------------------------------------------------------------- credential
\* Faulty variant: the check also clears the error notice.
VerifyKeySettlesClearsNotice ==
  /\ verifyKey = "pending"
  /\ \E selected \in BOOLEAN :
       /\ hasKey' = selected
       /\ event' = [op |-> "VerifyKeySettled", selected |-> selected]
  /\ verifyKey' = "done"
  /\ errorMsg' = Null
  /\ UNCHANGED << assetVars, status, resultUrl, videoUrl, isAnimating,
                  resultScene, connects, composites, videos >>

\* The mount effect's checkApiKey settles and its result is stored.
VerifyKeySettles ==
  /\ verifyKey = "pending"
  /\ \E selected \in BOOLEAN :
       /\ hasKey' = selected
       /\ event' = [op |-> "VerifyKeySettled", selected |-> selected]
  /\ verifyKey' = "done"
  /\ UNCHANGED << assetVars, resultVars, connects, composites, videos >>

\* The connect screen replaces the whole page while hasKey is false.
MainScreen == hasKey

\* handleConnect up to its await: requestApiKey opens the selection dialog when
\* the AI Studio API is there, and only warns (and resolves) when it is not.
ClickConnect ==
  /\ ~MainScreen
  /\ \E available \in BOOLEAN :
       /\ IF available
          THEN /\ connects < MaxConnects
               /\ connects' = connects + 1
               /\ UNCHANGED hasKey
          ELSE /\ hasKey' = TRUE
               /\ UNCHANGED connects
       /\ event' = [op |-> "ClickConnect", available |-> available]
  /\ UNCHANGED << assetVars, resultVars, verifyKey, composites, videos >>

\* handleConnect after its await.
ConnectSettles ==
  /\ connects > 0
  /\ connects' = connects - 1
  /\ \E resolved \in BOOLEAN :
       /\ IF resolved
          THEN hasKey' = TRUE /\ UNCHANGED errorMsg
          ELSE errorMsg' = Some(MsgConnectFailed) /\ UNCHANGED hasKey
       /\ event' = [op |-> "ConnectSettled", resolved |-> resolved]
  /\ UNCHANGED << assetVars, status, resultUrl, videoUrl, isAnimating,
                  resultScene, verifyKey, composites, videos >>

\* The Change API Key button.
ChangeKey ==
  /\ MainScreen
  /\ hasKey' = FALSE
  /\ event' = [op |-> "ChangeKey"]
  /\ UNCHANGED << assetVars, resultVars, taskVars >>

\* ------------------------------------------------------------------ assets
\* ImageUploader opens the file picker only while its slot is empty.
UploadClothes ==
  /\ MainScreen /\ IsNull(clothesImg)
  /\ \E img \in Images : clothesImg' = Some(img)
  /\ event' = NoEvent
  /\ UNCHANGED << hasKey, personImg, scenePrompt, resultVars, taskVars >>

\* Faulty variant: clearing the garment slot discards the results at once.
RemoveClothesDiscards ==
  /\ MainScreen /\ ~IsNull(clothesImg)
  /\ clothesImg' = Null
  /\ status' = "IDLE"
  /\ resultUrl' = Null
  /\ videoUrl' = Null
  /\ event' = NoEvent
  /\ UNCHANGED << hasKey, personImg, scenePrompt, isAnimating, errorMsg,
                  resultScene, taskVars >>

\* onRemove of the garment slot.
RemoveClothes ==
  /\ MainScreen /\ ~IsNull(clothesImg)
  /\ clothesImg' = Null
  /\ event' = NoEvent
  /\ UNCHANGED << hasKey, personImg, scenePrompt, resultVars, taskVars >>

UploadPerson ==
  /\ MainScreen /\ IsNull(personImg)
  /\ \E img \in Images : personImg' = Some(img)
  /\ event' = NoEvent
  /\ UNCHANGED << hasKey, clothesImg, scenePrompt, resultVars, taskVars >>

RemovePerson ==
  /\ MainScreen /\ ~IsNull(personImg)
  /\ personImg' = Null
  /\ event' = NoEvent
  /\ UNCHANGED << hasKey, clothesImg, scenePrompt, resultVars, taskVars >>

EditScene ==
  /\ MainScreen
  /\ \E s \in Scenes : scenePrompt' = s
  /\ event' = NoEvent
  /\ UNCHANGED << hasKey, clothesImg, personImg, resultVars, taskVars >>

\* ------------------------------------------------------------ composition
\* Faulty variant: the button is not disabled while an animation is in flight.
GenerateButtonDisabledNoAnimating ==
  \/ IsNull(clothesImg)
  \/ IsNull(personImg)
  \/ ~Truthy(scenePrompt)
  \/ status = "GENERATING"

\* Faulty variant: the button is not disabled while a composition is in flight.
GenerateButtonDisabledNoStatus ==
  \/ IsNull(clothesImg)
  \/ IsNull(personImg)
  \/ ~Truthy(scenePrompt)
  \/ isAnimating

\* The Generate button's disabled attribute.
GenerateButtonDisabled ==
  \/ IsNull(clothesImg)
  \/ IsNull(personImg)
  \/ ~Truthy(scenePrompt)
  \/ status = "GENERATING"
  \/ isAnimating

\* Faulty variant: the description is tested without trimming.
GenerateGuardNoTrim ==
  ~IsNull(clothesImg) /\ ~IsNull(personImg) /\ Truthy(scenePrompt)

\* The first line of handleGenerate.
GenerateGuard ==
  ~IsNull(clothesImg) /\ ~IsNull(personImg) /\ Truthy(Trim(scenePrompt))

\* A press of the Generate button reaches handleGenerate.
GenerateAccepted == MainScreen /\ ~GenerateButtonDisabled /\ GenerateGuard

\* Faulty variant: the error notice is left in place.
GenerateStartKeepsNotice ==
  [ status |-> "GENERATING", errorMsg |-> errorMsg, resultUrl |-> Null,
    videoUrl |-> Null ]

\* Faulty variant: the composite held is left in place.
GenerateStartKeepsResult ==
  [ status |-> "GENERATING", errorMsg |-> Null, resultUrl |-> resultUrl,
    videoUrl |-> Null ]

\* Faulty variant: a video held from an earlier composite is left in place.
GenerateStartKeepsVideo ==
  [ status |-> "GENERATING", errorMsg |-> Null, resultUrl |-> Null,
    videoUrl |-> videoUrl ]

\* The four setters handleGenerate calls before its try block.
GenerateStart ==
  [ status |-> "GENERATING", errorMsg |-> Null, resultUrl |-> Null,
    videoUrl |-> Null ]

\* What was held when a request was accepted (kept for the record).
Prior ==
  [ status |-> status, result |-> ~IsNull(resultUrl),
    video |-> ~IsNull(videoUrl), notice |-> ~IsNull(errorMsg) ]

\* handleGenerate up to its await: the state is reset and the call is issued.
\* A press that the button or the guard turns down changes nothing.
ClickGenerate ==
  /\ composites < MaxInFlight
  /\ IF GenerateAccepted
     THEN /\ status' = GenerateStart.status
          /\ errorMsg' = GenerateStart.errorMsg
          /\ resultUrl' = GenerateStart.resultUrl
          /\ videoUrl' = GenerateStart.videoUrl
          /\ resultScene' = scenePrompt
          /\ composites' = composites + 1
          /\ event' = [ op |-> "ClickGenerate", accepted |-> TRUE,
                        prior |-> Prior,
                        request |-> CompositeRequest(Get(clothesImg),
                                      Get(personImg), scenePrompt) ]
     ELSE /\ event' = [op |-> "ClickGenerate", accepted |-> FALSE]
          /\ UNCHANGED << status, errorMsg, resultUrl, videoUrl, resultScene,
                          composites >>
  /\ UNCHANGED << hasKey, assetVars, isAnimating, verifyKey, connects, videos >>

\* Faulty variant: the catch block reports the failure but keeps the credential.
GenerateCaughtKeepsKey(message) ==
  [ resetKey |-> FALSE,
    notice |-> IF message = API_KEY_INVALID
               THEN MsgSessionExpired ELSE MsgGenerationFailed,
    status |-> "ERROR" ]

\* Faulty variant: the catch block reports the failure but leaves the status.
GenerateCaughtStaysGenerating(message) ==
  [ resetKey |-> message = API_KEY_INVALID,
    notice |-> IF message = API_KEY_INVALID
               THEN MsgSessionExpired ELSE MsgGenerationFailed,
    status |-> "GENERATING" ]

\* The catch block of handleGenerate.
GenerateCaught(message) ==
  [ resetKey |-> message = API_KEY_INVALID,
    notice |-> IF message = API_KEY_INVALID
               THEN MsgSessionExpired ELSE MsgGenerationFailed,
    status |-> "ERROR" ]

\* handleGenerate after its await, for one answer of the image endpoint.
GenerateSettlesWith(outcome) ==
  /\ composites > 0
  /\ composites' = composites - 1
  /\ LET r == generateComposite(outcome)
     IN  /\ IF r.ok
            THEN /\ resultUrl' = Some(r.value)
                 /\ status' = "SUCCESS"
                 /\ UNCHANGED << hasKey, errorMsg >>
            ELSE LET c == GenerateCaught(r.message)
                 IN  /\ hasKey' = IF c.resetKey THEN FALSE ELSE hasKey
                     /\ errorMsg' = Some(c.notice)
                     /\ status' = c.status
                     /\ UNCHANGED resultUrl
         /\ event' = [ op |-> "GenerateSettled", outcome |-> outcome,
                       prior |-> Prior,
                       raised |-> RaisedInComposite(outcome), result |-> r ]
  /\ UNCHANGED << assetVars, videoUrl, isAnimating, resultScene, verifyKey,
                  connects, videos >>

GenerateSettles == \E outcome \in ImageOutcomes : GenerateSettlesWith(outcome)

\* -------------------------------------------------------------- animation
\* Faulty variant: the button is also shown when a video is held.
AnimateButtonShownWithVideo ==
  /\ MainScreen
  /\ status \notin {"IDLE", "GENERATING"}
  /\ ~IsNull(resultUrl)

\* ResultCard shows the Animate button under the composite image when the
\* status is neither IDLE nor GENERATING and no video is held.
AnimateButtonShown ==
  /\ MainScreen
  /\ status \notin {"IDLE", "GENERATING"}
  /\ ~IsNull(resultUrl)
  /\ IsNull(videoUrl)

\* Faulty variant: the button stays enabled while an animation is in flight.
AnimateButtonNeverDisabled == FALSE

\* The Animate button's disabled attribute.
AnimateButtonDisabled == isAnimating

\* The first line of handleAnimate.
AnimateGuard == ~IsNull(resultUrl) /\ Truthy(scenePrompt)

AnimateAccepted == AnimateButtonShown /\ ~AnimateButtonDisabled /\ AnimateGuard

\* handleAnimate up to the first await of generateLiveVideo: the job is
\* submitted.
ClickAnimate ==
  /\ Len(videos) < MaxInFlight
  /\ IF AnimateAccepted
     THEN LET request == VideoRequest(Get(resultUrl), scenePrompt)
          IN  /\ isAnimating' = TRUE
              /\ errorMsg' = Null
              /\ videos' = Append(videos,
                   [ pc |-> "submit", image |-> request.imageBytes,
                     waits |-> 0, queries |-> 0, fetches |-> 0, doneSeen |-> -1,
                     ok |-> FALSE, body |-> "" ])
              /\ event' = [ op |-> "ClickAnimate", accepted |-> TRUE,
                            prior |-> Prior, request |-> request ]
     ELSE /\ event' = [op |-> "ClickAnimate", accepted |-> FALSE]
          /\ UNCHANGED << isAnimating, errorMsg, videos >>
  /\ UNCHANGED << hasKey, assetVars, status, resultUrl, videoUrl, resultScene,
                  verifyKey, connects, composites >>

RemoveAt(seq, i) == SubSeq(seq, 1, i - 1) \o SubSeq(seq, i + 1, Len(seq))

\* The catch block of handleAnimate.
AnimateCaught(message) ==
  [ resetKey |-> message = API_KEY_INVALID,
    notice |-> IF message = API_KEY_INVALID
               THEN MsgVideoSessionExpired ELSE MsgVideoFailed ]

\* generateLiveVideo throws at some stage: its catch block classifies the
\* error, then handleAnimate's catch and finally blocks run. The operation
\* is the one just received, if the stage has one.
AnimateFailsWith(i, stage, message, operation) ==
  LET t == videos[i]
      r == Thrown(ClassifyError(message))
      c == AnimateCaught(r.message)
  IN  /\ hasKey' = IF c.resetKey THEN FALSE ELSE hasKey
      /\ errorMsg' = Some(c.notice)
      /\ isAnimating' = FALSE
      /\ videos' = RemoveAt(videos, i)
      /\ event' = [ op |-> "AnimateSettled", stage |-> stage,
                    raised |-> Some(message), result |-> r, image |-> t.image,
                    waits |-> t.waits, queries |-> t.queries,
                    fetches |-> t.fetches, doneSeen |-> t.doneSeen,
                    operation |-> operation ]
      /\ UNCHANGED << assetVars, status, resultUrl, videoUrl, resultScene,
                      verifyKey, connects, composites >>

\* Faulty variant: a failed job is submitted again instead of being reported.
AnimateFailsResubmits(i, stage, message) ==
  /\ videos' = [videos EXCEPT ![i].pc = "submit", ![i].doneSeen = -1,
                              ![i].waits = 0, ![i].queries = 0,
                              ![i].fetches = 0]
  /\ event' = NoEvent
  /\ UNCHANGED << hasKey, assetVars, resultVars, verifyKey, connects,
                  composites >>

\* A call that was rejected, or a response that could not be read.
AnimateFails(i, stage, message) == AnimateFailsWith(i, stage, message, Null)

\* The poll counters stop at MaxPolls.
Count(n) == IF n < MaxPolls THEN n + 1 ELSE n

\* The number of status queries made when done = true was first seen
\* (-1 until then); kept for the record, never read by the program.
Seen(t, operation) ==
  IF operation.done /\ t.doneSeen = -1 THEN t.queries ELSE t.doneSeen

\* An operation has come back (from the submission or a status query): the
\* loop waits again, or the download link is read and the fetch is issued.
OperationReceived(i, stage, operation) ==
  IF PollLoopContinues(operation)
  THEN /\ videos' = [videos EXCEPT ![i].pc = "wait",
                                   ![i].doneSeen = Seen(videos[i], operation)]
       /\ event' = [ op |-> "OperationReceived", stage |-> stage,
                     operation |-> operation, next |-> "wait" ]
       /\ UNCHANGED << hasKey, assetVars, resultVars, verifyKey, connects,
                       composites >>
  ELSE IF IsNull(DownloadLink(operation))
  THEN AnimateFailsWith(i, "locator", NoVideoUri, Some(operation))
  ELSE /\ videos' = [videos EXCEPT ![i].pc = "fetch",
                                   ![i].fetches = videos[i].fetches + 1,
                                   ![i].doneSeen = Seen(videos[i], operation)]
       /\ event' = [ op |-> "OperationReceived", stage |-> stage,
                     operation |-> operation, next |-> "fetch" ]
       /\ UNCHANGED << hasKey, assetVars, resultVars, verifyKey, connects,
                       composites >>

\* The video endpoint counts as never done once the counters have stopped.
MayReport(t, outcome) ==
  outcome.kind = "operation" /\ outcome.done => t.queries < MaxPolls

SubmitSettles(i) ==
  /\ videos[i].pc = "submit"
  /\ \E outcome \in VideoOutcomes :
       /\ MayReport(videos[i], outcome)
       /\ IF outcome.kind = "reject"
          THEN AnimateFails(i, "submit", outcome.message)
          ELSE OperationReceived(i, "submit", outcome)

\* The 5 second timer fires and the status query is issued.
WaitElapses(i) ==
  /\ videos[i].pc = "wait"
  /\ videos' = [videos EXCEPT ![i].pc = "poll",
                              ![i].waits = Count(videos[i].waits),
                              ![i].queries = Count(videos[i].queries)]
  /\ event' = NoEvent
  /\ UNCHANGED << hasKey, assetVars, resultVars, verifyKey, connects, composites >>

PollSettles(i) ==
  /\ videos[i].pc = "poll"
  /\ \E outcome \in VideoOutcomes :
       /\ MayReport(videos[i], outcome)
       /\ IF outcome.kind = "reject"
          THEN AnimateFails(i, "poll", outcome.message)
          ELSE OperationReceived(i, "poll", outcome)

\* fetch(`${downloadLink}&key=...`) settles; response.ok is not looked at.
FetchSettles(i) ==
  /\ videos[i].pc = "fetch"
  /\ \E outcome \in FetchOutcomes :
       IF outcome.kind = "reject"
       THEN AnimateFails(i, "fetch", outcome.message)
       ELSE /\ videos' = [videos EXCEPT ![i].pc = "blob",
                                        ![i].ok = outcome.ok,
                                        ![i].body = outcome.body]
            /\ event' = NoEvent
            /\ UNCHANGED << hasKey, assetVars, resultVars, verifyKey,
                            connects, composites >>

\* response.blob() settles; the object URL is returned to handleAnimate, which
\* stores it and clears the flag in its finally block.
BlobSettles(i) ==
  /\ videos[i].pc = "blob"
  /\ \E resolved \in BOOLEAN :
       IF ~resolved
       THEN AnimateFails(i, "blob", <<"Failed to fetch">>)
       ELSE LET t == videos[i]
                r == Returned(ObjectUrl(t.body))
            IN  /\ videoUrl' = Some(r.value)
                /\ isAnimating' = FALSE
                /\ videos' = RemoveAt(videos, i)
                /\ event' = [ op |-> "AnimateSettled", stage |-> "done",
                              raised |-> Null, result |-> r, image |-> t.image,
                              waits |-> t.waits, queries |-> t.queries,
                              fetches |-> t.fetches, doneSeen |-> t.doneSeen,
                              ok |-> t.ok, body |-> t.body ]
                /\ UNCHANGED << hasKey, assetVars, status, resultUrl, errorMsg,
                                resultScene, verifyKey, connects, composites >>

SubmitSettlesSome == \E i \in 1..Len(videos) : SubmitSettles(i)
WaitElapsesSome == \E i \in 1..Len(videos) : WaitElapses(i)
PollSettlesSome == \E i \in 1..Len(videos) : PollSettles(i)
FetchSettlesSome == \E i \in 1..Len(videos) : FetchSettles(i)
BlobSettlesSome == \E i \in 1..Len(videos) : BlobSettles(i)

\* Any step of a generateLiveVideo call in flight.
VideoStep ==
  \/ SubmitSettlesSome
  \/ WaitElapsesSome
  \/ PollSettlesSome
  \/ FetchSettlesSome
  \/ BlobSettlesSome

\* ------------------------------------------------------------ specification
Next ==
  \/ VerifyKeySettles
  \/ ClickConnect
  \/ ConnectSettles
  \/ ChangeKey
  \/ UploadClothes
  \/ RemoveClothes
  \/ UploadPerson
  \/ RemovePerson
  \/ EditScene
  \/ ClickGenerate
  \/ GenerateSettles
  \/ ClickAnimate
  \/ SubmitSettlesSome
  \/ WaitElapsesSome
  \/ PollSettlesSome
  \/ FetchSettlesSome
  \/ BlobSettlesSome

Spec == Init /\ [][Next]_vars

\* Remote calls settle and timers fire; the user is under no obligation.
FairSpec ==
  /\ Spec
  /\ WF_vars(VerifyKeySettles)
  /\ WF_vars(ConnectSettles)
  /\ WF_vars(GenerateSettles)
  /\ WF_vars(VideoStep)

\* generateComposite alone: one accepted request in flight, settled by every
\* answer of the image endpoint within the bounds.
InitComposite ==
  /\ hasKey = TRUE
  /\ clothesImg \in { Some(img) : img \in Images }
  /\ personImg \in { Some(img) : img \in Images }
  /\ scenePrompt \in { s \in Scenes : Truthy(Trim(s)) }
  /\ status = "GENERATING"
  /\ resultUrl = Null
  /\ videoUrl = Null
  /\ isAnimating = FALSE
  /\ errorMsg = Null
  /\ verifyKey = "done"
  /\ connects = 0
  /\ composites = 1
  /\ videos = <<>>
  /\ resultScene = scenePrompt
  /\ event = [ op |-> "ClickGenerate", accepted |-> TRUE,
               prior |-> [ status |-> "IDLE", result |-> FALSE,
                           video |-> FALSE, notice |-> FALSE ],
               request |-> CompositeRequest(Get(clothesImg), Get(personImg),
                                            scenePrompt) ]

GenerateSettlesAny ==
  \E outcome \in AllImageOutcomes : GenerateSettlesWith(outcome)

NextComposite == GenerateSettlesAny

SpecComposite == InitComposite /\ [][NextComposite]_vars

\* ------------------------------------------------------------------ claims
RejectedClick(op) == [op |-> op, accepted |-> FALSE]

\* C1: at most one composition call is in flight, and a press of Generate
\* while status = GENERATING issues no image-endpoint call and leaves status,
\* result image, result video and error notice as they were.
C1_SingleFlightComposition ==
  [][ /\ composites' <= 1
      /\ (status = "GENERATING" /\ event'.op = "ClickGenerate")
           => /\ composites' = composites
              /\ UNCHANGED << status, resultUrl, videoUrl, errorMsg >>
    ]_vars

\* A press of Generate with both assets and a description in place, turned
\* down because a composition is in flight.
C1_Witness ==
  /\ status = "GENERATING"
  /\ composites = 1
  /\ MainScreen /\ GenerateGuard
  /\ event = RejectedClick("ClickGenerate")

\* C2: at most one animation job is in flight, and a press of Animate while
\* isAnimating submits no job and changes nothing of the result state.
C2_SingleFlightAnimation ==
  [][ /\ Len(videos') <= 1
      /\ (isAnimating /\ event'.op = "ClickAnimate")
           => /\ videos' = videos
              /\ UNCHANGED resultVars
    ]_vars

\* A press of Animate on a held composite, turned down because a job is in
\* flight.
C2_Witness ==
  /\ isAnimating
  /\ Len(videos) = 1
  /\ AnimateButtonShown /\ AnimateGuard
  /\ event = RejectedClick("ClickAnimate")

\* C3: an animation in flight always ends: isAnimating eventually returns to
\* false, also when the job never reports done.
C3_PollingTerminates == isAnimating ~> ~isAnimating

\* C4: when done = true is first reported on the Nth status query together
\* with a retrieval URI, there have been exactly N status queries, each after
\* one wait, none follows, and exactly one retrieval fetch is made.
PollCountsExact(t) ==
  /\ t.waits = t.queries
  /\ IF t.doneSeen = -1
     THEN t.fetches = 0
     ELSE t.queries = t.doneSeen /\ t.fetches = 1

C4_ExactlyNQueries ==
  /\ \A i \in 1..Len(videos) :
       /\ PollCountsExact(videos[i])
       /\ videos[i].doneSeen # -1 <=> videos[i].pc \in {"fetch", "blob"}
  /\ (event.op = "AnimateSettled" /\ event.stage \in {"fetch", "blob", "done"})
       => PollCountsExact(event) /\ event.doneSeen # -1

\* A job that reported done on its third status query has been retrieved.
C4_Witness ==
  /\ event.op = "AnimateSettled" /\ event.stage = "done"
  /\ event.doneSeen = 3 /\ event.queries = 3 /\ event.fetches = 1

\* C5: a remote call (image call, video submission, status query) rejected
\* with a message that contains the entity-not-found signature makes the
\* operation report the authentication error and leaves hasKey false; the
\* composition also ends in ERROR.
C5_AuthFailureResetsCredential ==
  /\ ( /\ event.op = "GenerateSettled"
       /\ event.outcome.kind = "reject"
       /\ Includes(event.outcome.message, EntityNotFound) )
       => /\ event.result = Thrown(API_KEY_INVALID)
          /\ hasKey = FALSE
          /\ errorMsg = Some(MsgSessionExpired)
          /\ status = "ERROR"
  /\ ( /\ event.op = "AnimateSettled"
       /\ event.stage \in {"submit", "poll"}
       /\ Includes(Get(event.raised), EntityNotFound) )
       => /\ event.result = Thrown(API_KEY_INVALID)
          /\ hasKey = FALSE
          /\ errorMsg = Some(MsgVideoSessionExpired)

\* Both paths have met an entity-not-found failure: a status query here.
C5_Witness ==
  /\ event.op = "AnimateSettled" /\ event.stage = "poll"
  /\ Includes(Get(event.raised), EntityNotFound)
  /\ Get(event.raised) # EntityNotFound
  /\ status = "SUCCESS"

\* An operation has settled with a failure raised inside its service.
SettledWithFailure ==
  /\ event.op \in {"GenerateSettled", "AnimateSettled"}
  /\ ~IsNull(event.raised)

\* C6: a failure whose message contains the signature is thrown as the
\* authentication error; any other failure is thrown unchanged and is not the
\* authentication error.
C6_ClassificationPrecedence ==
  SettledWithFailure =>
    IF Includes(Get(event.raised), EntityNotFound)
    THEN event.result = Thrown(API_KEY_INVALID)
    ELSE /\ event.result = Thrown(Get(event.raised))
         /\ event.result.message # API_KEY_INVALID

\* The image endpoint answered with text and no image.
TextOnlyParts(parts) ==
  /\ \A i \in 1..Len(parts) : IsNull(parts[i].inlineData)
  /\ \E i \in 1..Len(parts) :
       ~IsNull(parts[i].text) /\ Get(parts[i].text) # <<>>

FirstText(parts) ==
  Get(parts[CHOOSE i \in 1..Len(parts) :
              /\ ~IsNull(parts[i].text) /\ Get(parts[i].text) # <<>>
              /\ \A j \in 1..(i - 1) :
                   IsNull(parts[j].text) \/ Get(parts[j].text) = <<>>].text)

SettledTextOnly ==
  /\ event.op = "GenerateSettled"
  /\ event.outcome.kind = "response"
  /\ TextOnlyParts(ResponseParts(event.outcome.candidates))

\* C7: a composition answered with text only ends in ERROR and the notice
\* held contains the returned text.
C7_RefusalSurfaced ==
  SettledTextOnly =>
    /\ status = "ERROR"
    /\ ~IsNull(errorMsg)
    /\ Includes(Get(errorMsg),
                FirstText(ResponseParts(event.outcome.candidates)))

\* C8: a text-only answer makes generateComposite throw an error that carries
\* the text and differs from what it throws for an empty answer and for any
\* rejected call.
C8_RefusalDistinct ==
  SettledTextOnly =>
    /\ event.result =
         Thrown(FirstText(ResponseParts(event.outcome.candidates)))
    /\ event.result # generateComposite([kind |-> "response", candidates |-> <<>>])
    /\ \A m \in RawMessages :
         event.result # generateComposite([kind |-> "reject", message |-> m])

\* C9: an answer with an inline-image part makes generateComposite return
\* the data URL of the first such part's payload, which becomes the result.
C9_FirstInlineReturned ==
  ( /\ event.op = "GenerateSettled"
    /\ event.outcome.kind = "response"
    /\ \E i \in 1..Len(ResponseParts(event.outcome.candidates)) :
         ~IsNull(ResponseParts(event.outcome.candidates)[i].inlineData) )
    => LET parts == ResponseParts(event.outcome.candidates)
       IN  \E i \in 1..Len(parts) :
             /\ ~IsNull(parts[i].inlineData)
             /\ \A j \in 1..(i - 1) : IsNull(parts[j].inlineData)
             /\ event.result.ok
             /\ SplitSecond(event.result.value, ",")
                  = Some(<<Get(parts[i].inlineData).data>>)
             /\ resultUrl = Some(event.result.value)
             /\ status = "SUCCESS"

\* Two inline parts with different payloads: the first one was returned.
C9_Witness ==
  /\ event.op = "GenerateSettled"
  /\ event.outcome.kind = "response"
  /\ LET parts == ResponseParts(event.outcome.candidates)
     IN  /\ Len(parts) = 2
         /\ ~IsNull(parts[1].inlineData) /\ ~IsNull(parts[2].inlineData)
         /\ Get(parts[1].inlineData).data # Get(parts[2].inlineData).data
  /\ status = "SUCCESS"

\* The answer has neither an inline part nor a part with non-empty text.
NoImageNoText(parts) ==
  \A i \in 1..Len(parts) :
    /\ IsNull(parts[i].inlineData)
    /\ IsNull(parts[i].text) \/ Get(parts[i].text) = <<>>

\* C10: an answer with neither image nor text makes generateComposite throw
\* the empty-response error; the composition ends in ERROR with no result.
C10_EmptyResponse ==
  ( /\ event.op = "GenerateSettled"
    /\ event.outcome.kind = "response"
    /\ NoImageNoText(ResponseParts(event.outcome.candidates)) )
    => /\ event.result = Thrown(NoImageData)
       /\ status = "ERROR"
       /\ IsNull(resultUrl)

\* An answer whose only part is an empty text has been turned down as empty.
C10_Witness ==
  /\ event.op = "GenerateSettled"
  /\ event.outcome.kind = "response"
  /\ event.outcome.candidates = << <<TextPart(<<>>)>> >>
  /\ status = "ERROR"

\* The answer carries at least one inline image.
InlineAnswer(outcome) ==
  /\ outcome.kind = "response"
  /\ HasInline(ResponseParts(outcome.candidates))

\* The payload of the first inline image of the answer.
FirstPayload(outcome) ==
  LET parts == ResponseParts(outcome.candidates)
      first == CHOOSE i \in 1..Len(parts) :
                 /\ ~IsNull(parts[i].inlineData)
                 /\ \A j \in 1..(i - 1) : IsNull(parts[j].inlineData)
  IN  Get(parts[first].inlineData).data

\* C11: with both assets and a non-blank description a request is accepted
\* and status becomes GENERATING; when the image endpoint answers with an
\* inline image the status goes from GENERATING to SUCCESS and the held result
\* is the data URL of that image. Status changes in no other way than
\* IDLE/SUCCESS/ERROR -> GENERATING on acceptance and GENERATING ->
\* SUCCESS/ERROR on settlement.
C11_EndToEndSuccess ==
  [][ /\ status' # status
        => \/ /\ event'.op = "ClickGenerate" /\ event'.accepted
              /\ status' = "GENERATING"
           \/ /\ event'.op = "GenerateSettled"
              /\ status = "GENERATING"
              /\ status' \in {"SUCCESS", "ERROR"}
      /\ (event'.op = "ClickGenerate" /\ event'.accepted)
        => /\ ~IsNull(clothesImg) /\ ~IsNull(personImg)
           /\ Trim(scenePrompt) # <<>>
           /\ status' = "GENERATING"
      /\ (event'.op = "GenerateSettled" /\ InlineAnswer(event'.outcome))
        => /\ status = "GENERATING"
           /\ status' = "SUCCESS"
           /\ ~IsNull(resultUrl')
           /\ SplitSecond(Get(resultUrl'), ",")
                = Some(<<FirstPayload(event'.outcome)>>)
    ]_vars

\* A first request, made from IDLE, has been answered with a text part and
\* an inline image: status is SUCCESS and the image is held.
C11_Witness ==
  /\ event.op = "GenerateSettled"
  /\ event.outcome.kind = "response"
  /\ LET parts == ResponseParts(event.outcome.candidates)
     IN  Len(parts) = 2 /\ IsNull(parts[1].inlineData)
                        /\ ~IsNull(parts[2].inlineData)
  /\ status = "SUCCESS"
  /\ resultUrl = Some(<<"data", ":", "image/png", ";", "base64", ",", "BBBB">>)
  /\ IsNull(errorMsg)

\* The animation the event reports has failed: an error was raised, or the
\* retrieval fetch came back with a failure response.
AnimationFailed ==
  /\ event.op = "AnimateSettled"
  /\ IF event.stage = "done" THEN ~event.ok ELSE TRUE

\* C12: after a failed animation (submission, status query, missing locator,
\* retrieval, authentication) isAnimating is false, status is still SUCCESS,
\* the composite is the one the job was submitted with, no video is held and
\* an error notice is set.
C12_FailedAnimationKeepsStatus ==
  AnimationFailed
    => /\ ~isAnimating
       /\ status = "SUCCESS"
       /\ ~IsNull(resultUrl)
       /\ SplitSecond(Get(resultUrl), ",") = event.image
       /\ IsNull(videoUrl)
       /\ ~IsNull(errorMsg)

\* C13: a job that answers done = false twice and then done = true with a
\* retrieval URI, and whose retrieval succeeds, has made exactly 3 status
\* queries and 1 retrieval fetch; isAnimating is false again, status is still
\* SUCCESS, the composite is the one submitted and the video held is the
\* object URL of the retrieved payload.
C13_SuccessfulAnimation ==
  ( /\ event.op = "AnimateSettled" /\ event.stage = "done"
    /\ event.doneSeen = 3 /\ event.ok )
    => /\ event.queries = 3 /\ event.waits = 3
       /\ event.fetches = 1
       /\ ~isAnimating
       /\ status = "SUCCESS"
       /\ ~IsNull(resultUrl)
       /\ SplitSecond(Get(resultUrl), ",") = event.image
       /\ videoUrl = Some(<<"blob", ":", event.body>>)
       /\ event.body = "video-bytes"

\* Such a job has delivered its video.
C13_Witness ==
  /\ event.op = "AnimateSettled" /\ event.stage = "done"
  /\ event.doneSeen = 3 /\ event.ok
  /\ event.waits = 3
  /\ ~IsNull(videoUrl)
  /\ ~isAnimating

\* Both slots hold an asset and the description has a token that is not
\* white space.
Ready ==
  /\ ~IsNull(clothesImg)
  /\ ~IsNull(personImg)
  /\ \E k \in 1..Len(scenePrompt) : ~IsSpace(scenePrompt[k])

\* No composition or animation is under way and the main screen is shown.
AtRest == MainScreen /\ status # "GENERATING" /\ ~isAnimating

\* C14: whatever uploads, removals and edits came before, a press of Generate
\* is accepted only if both slots are populated and the description is
\* non-empty after trimming, and, when nothing is under way, whenever they
\* are; an accepted press moves status to GENERATING and issues one call, a
\* press turned down changes nothing.
C14_ReadinessGate ==
  [][ event'.op = "ClickGenerate"
        => /\ event'.accepted => Ready
           /\ (AtRest /\ Ready) => event'.accepted
           /\ event'.accepted
                => status' = "GENERATING" /\ composites' = composites + 1
           /\ ~event'.accepted
                => UNCHANGED << hasKey, assetVars, resultVars, taskVars >>
    ]_vars

\* With both assets uploaded and a description of one blank, a press of
\* Generate at rest has been turned down.
C14_Witness ==
  /\ event = RejectedClick("ClickGenerate")
  /\ AtRest
  /\ ~IsNull(clothesImg) /\ ~IsNull(personImg)
  /\ scenePrompt = <<" ">>
  /\ composites = 0

\* A remote call is issued in this step: the image call, the job submission,
\* a status query or the retrieval fetch.
RemoteCallIssued ==
  \/ composites' > composites
  \/ Len(videos') > Len(videos)
  \/ /\ Len(videos') = Len(videos)
     /\ \E i \in 1..Len(videos) :
          /\ videos'[i].pc # videos[i].pc
          /\ videos'[i].pc \in {"poll", "fetch"}

\* C15: no image call, job submission, status query or retrieval fetch is
\* issued in a state where hasKey is false.
C15_CredentialGate == [][ RemoteCallIssued => hasKey ]_vars

\* C16: a press of Connect where window.aistudio offers no key selection
\* leaves hasKey false and reports the connection failure.
C16_ConnectUnavailable ==
  (event.op = "ClickConnect" /\ ~event.available)
    => /\ ~hasKey
       /\ errorMsg = Some(MsgConnectFailed)

\* C17: an accepted composition request clears the composite, the video and
\* the error notice as it issues the call; whenever status is GENERATING
\* neither a composite nor a video is held.
C17_AcceptClearsResults ==
  /\ [](status = "GENERATING" => IsNull(resultUrl) /\ IsNull(videoUrl))
  /\ [][ (event'.op = "ClickGenerate" /\ event'.accepted)
           => /\ IsNull(resultUrl') /\ IsNull(videoUrl') /\ IsNull(errorMsg')
              /\ composites' = composites + 1
       ]_vars

\* A request has been accepted while a composite and its video were held.
C17_Witness ==
  /\ event.op = "ClickGenerate" /\ event.accepted
  /\ event.prior.result /\ event.prior.video
  /\ status = "GENERATING"
  /\ IsNull(resultUrl) /\ IsNull(videoUrl)

\* C18: while isAnimating no video from an earlier job is held, and an
\* animation that ends with an error leaves no video in place.
C18_NoEarlierVideoWhileAnimating ==
  /\ isAnimating => IsNull(videoUrl)
  /\ (event.op = "AnimateSettled" /\ ~IsNull(event.raised)) => IsNull(videoUrl)

\* A composite is being animated again after an animation of it had failed.
C18_Witness ==
  /\ event.op = "ClickAnimate" /\ event.accepted
  /\ event.prior.notice
  /\ isAnimating
  /\ IsNull(videoUrl)

\* C19: after Change API Key status is IDLE and no composite or video is
\* held, so none is shown once a key is selected again.
C19_InvalidationResets ==
  event.op = "ChangeKey"
    => /\ status = "IDLE"
       /\ IsNull(resultUrl)
       /\ IsNull(videoUrl)

\* C20: calls in flight grow only by one and only with an accepted press
\* (Generate for the image call, Animate for the job submission); a
\* settlement, successful or failed, ends its call and starts no other; a
\* job is in its submission stage only as long as it is new.
C20_NoAutomaticRetry ==
  [][ /\ composites' > composites
        => /\ composites' = composites + 1
           /\ event'.op = "ClickGenerate" /\ event'.accepted
      /\ Len(videos') > Len(videos)
        => /\ Len(videos') = Len(videos) + 1
           /\ event'.op = "ClickAnimate" /\ event'.accepted
      /\ event'.op = "GenerateSettled" => composites' = composites - 1
      /\ event'.op = "AnimateSettled" => Len(videos') = Len(videos) - 1
      /\ \A i \in 1..Len(videos') :
           videos'[i].pc = "submit"
             => \/ i > Len(videos)
                \/ videos[i] = videos'[i]
    ]_vars

\* A job has failed on a status query and no call is left in flight.
C20_Witness ==
  /\ event.op = "AnimateSettled" /\ event.stage = "poll"
  /\ ~IsNull(event.raised)
  /\ event.queries = 2
  /\ videos = <<>>
  /\ composites = 0
  /\ ~isAnimating

\* C21: every failing step (the key selection, the image call, the job
\* submission, a status query, a missing locator, a retrieval fetch that is
\* rejected or comes back with a failure response) leaves an error notice,
\* and a failed step yields no result handle.
C21_NoFailureSwallowed ==
  /\ (event.op = "ConnectSettled" /\ ~event.resolved)
       => errorMsg = Some(MsgConnectFailed)
  /\ (event.op = "GenerateSettled" /\ ~InlineAnswer(event.outcome))
       => ~IsNull(errorMsg) /\ IsNull(resultUrl)
  /\ (event.op = "AnimateSettled" /\ event.stage # "done")
       => ~IsNull(errorMsg) /\ IsNull(videoUrl)
  /\ (event.op = "AnimateSettled" /\ event.stage = "done" /\ ~event.ok)
       => ~IsNull(errorMsg) /\ IsNull(videoUrl)

\* The operation says the job is done and carries no retrieval locator.
DoneWithoutLocator(operation) == operation.done /\ ~operation.hasUri

\* C22: a job that reports done without a retrieval locator never goes on to
\* wait or to fetch: generateLiveVideo throws "No video URI found" on
\* receiving it, having made no retrieval fetch, and the call is over (no
\* further status query), with the failure reported by handleAnimate.
C22_MissingLocator ==
  /\ event.op = "OperationReceived" => ~DoneWithoutLocator(event.operation)
  /\ (event.op = "AnimateSettled" /\ event.stage = "locator")
       => /\ ~IsNull(event.operation)
          /\ DoneWithoutLocator(Get(event.operation))
          /\ event.raised = Some(NoVideoUri)
          /\ event.result = Thrown(<<"No video URI found">>)
          /\ event.fetches = 0
          /\ event.waits = event.queries
          /\ videos = <<>>
          /\ ~isAnimating
          /\ IsNull(videoUrl)
          /\ errorMsg = Some(MsgVideoFailed)

\* The second status query answered done with no locator.
C22_Witness ==
  /\ event.op = "AnimateSettled" /\ event.stage = "locator"
  /\ DoneWithoutLocator(Get(event.operation))
  /\ event.queries = 2
  /\ event.fetches = 0
  /\ videos = <<>>

\* The inline part built from an uploaded asset.
PartOf(img) == [inlineData |-> [mimeType |-> img.mimeType, data |-> img.data]]

\* C23: every request sent to the image endpoint has exactly three parts:
\* the text prompt, then the garment slot's bytes and mime type, then the
\* subject slot's.
C23_RequestPartsOrdered ==
  (event.op = "ClickGenerate" /\ event.accepted)
    => LET parts == event.request.parts
       IN  /\ Len(parts) = 3
           /\ DOMAIN parts[1] = {"text"}
           /\ parts[2] = PartOf(Get(clothesImg))
           /\ parts[3] = PartOf(Get(personImg))

\* A request has been sent for a garment and a subject that differ in bytes
\* and in mime type.
C23_Witness ==
  /\ event.op = "ClickGenerate" /\ event.accepted
  /\ Get(clothesImg).data # Get(personImg).data
  /\ Get(clothesImg).mimeType # Get(personImg).mimeType
  /\ composites = 1

\* C24: an animation is submitted with the held composite image and with the
\* description that composite was generated with, whatever the description
\* field holds by then.
C24_AnimationUsesCompositeScene ==
  (event.op = "ClickAnimate" /\ event.accepted)
    => /\ event.request.imageBytes = SplitSecond(Get(resultUrl), ",")
       /\ event.request.prompt = VideoPrompt(resultScene)

\* C25: with a composite held and the Animate button enabled, a press while
\* the description is empty or blank still submits a job, and the job's
\* prompt ends with the generic directive.
C25_BlankSceneStillAnimates ==
  event.op = "ClickAnimate"
    => /\ (~event.accepted /\ AnimateButtonShown /\ ~AnimateButtonDisabled)
            => Trim(scenePrompt) # <<>>
       /\ (event.accepted /\ Trim(scenePrompt) = <<>>)
            => event.request.prompt =
                 << "Create a 'Live Photo' style video",
                    "Keep the original background atmosphere and lighting." >>

\* C26: a composition that fails (the call is rejected, or the answer has no
\* inline image) was in GENERATING and ends in ERROR with no composite held.
C26_FailureEndsInError ==
  (event.op = "GenerateSettled" /\ ~InlineAnswer(event.outcome))
    => /\ event.prior.status = "GENERATING"
       /\ ~event.result.ok
       /\ status = "ERROR"
       /\ IsNull(resultUrl)

\* A rejected image call has ended a composition.
C26_Witness ==
  /\ event.op = "GenerateSettled"
  /\ event.outcome.kind = "reject"
  /\ event.prior.status = "GENERATING"
  /\ status = "ERROR"
  /\ errorMsg = Some(MsgGenerationFailed)

\* The composite held, or the video held, is given up in this step.
ResultDiscarded ==
  \/ ~IsNull(resultUrl) /\ resultUrl' # resultUrl
  \/ ~IsNull(videoUrl) /\ videoUrl' # videoUrl

\* C27: filling or clearing an asset slot, or editing the description, leaves
\* status, composite and video as they are; a held composite or video is
\* given up only by an accepted composition request.
C27_AssetChangeKeepsResult ==
  [][ /\ assetVars' # assetVars => UNCHANGED << status, resultUrl, videoUrl >>
      /\ ResultDiscarded => event'.op = "ClickGenerate" /\ event'.accepted
    ]_vars

\* A composite and its video are held although the garment slot has been
\* cleared and the description emptied.
C27_Witness ==
  /\ status = "SUCCESS"
  /\ ~IsNull(resultUrl) /\ ~IsNull(videoUrl)
  /\ IsNull(clothesImg) /\ ~IsNull(personImg)
  /\ scenePrompt = <<>>
  /\ event = NoEvent

\* C28: the mount effect's check stores its answer in hasKey and changes
\* nothing else; hasKey is otherwise changed only by handleConnect, by a
\* failure reported as API_KEY_INVALID, and by Change API Key.
C28_CheckOnlyCaches ==
  [][ /\ event'.op = "VerifyKeySettled"
        => /\ hasKey' = event'.selected
           /\ UNCHANGED << assetVars, resultVars, connects, composites, videos >>
      /\ hasKey' # hasKey
        => \/ event'.op = "VerifyKeySettled"
           \/ event'.op \in {"ClickConnect", "ConnectSettled"} /\ hasKey'
           \/ /\ event'.op \in {"GenerateSettled", "AnimateSettled"}
              /\ ~event'.result.ok
              /\ event'.result.message = API_KEY_INVALID
              /\ ~hasKey'
           \/ event'.op = "ChangeKey" /\ ~hasKey'
    ]_vars

\* The check has answered "no key" after a composite was produced.
C28_Witness ==
  /\ event.op = "VerifyKeySettled" /\ ~event.selected
  /\ ~hasKey
  /\ status = "SUCCESS"
  /\ ~IsNull(resultUrl)

\* C29: while an animation is in flight status is SUCCESS and a composite is
\* held.
C29_AnimatingImpliesSuccess ==
  (isAnimating \/ videos # <<>>) => status = "SUCCESS" /\ ~IsNull(resultUrl)

\* A job is being polled.
C29_Witness ==
  /\ isAnimating
  /\ Len(videos) = 1
  /\ videos[1].pc = "poll" /\ videos[1].queries = 1
  /\ status = "SUCCESS"

\* C30: a composite is held exactly when status is SUCCESS.
C30_ResultIffSuccess == ~IsNull(resultUrl) <=> status = "SUCCESS"

\* A new request has been accepted in SUCCESS and the composite is gone.
C30_Witness ==
  /\ event.op = "ClickGenerate" /\ event.accepted
  /\ event.prior.status = "SUCCESS" /\ event.prior.result
  /\ ~event.prior.video
  /\ status = "GENERATING"
  /\ IsNull(resultUrl)

\* The payload of the composite held, as a job would read it.
HeldPayload == SplitSecond(Get(resultUrl), ",")

\* C31: whenever a video is held a composite is held too; every job in
\* flight, and the job a video comes from, was submitted with the payload of
\* the composite held, and the composite is not replaced in between: a step
\* that changes the composite leaves no video.
C31_VideoBelongsToComposite ==
  /\ [] /\ ~IsNull(videoUrl) => ~IsNull(resultUrl)
        /\ \A i \in 1..Len(videos) :
             ~IsNull(resultUrl) /\ videos[i].image = HeldPayload
  /\ [][ /\ (videoUrl' # videoUrl /\ ~IsNull(videoUrl'))
              => /\ event'.op = "AnimateSettled" /\ event'.stage = "done"
                 /\ ~IsNull(resultUrl)
                 /\ resultUrl' = resultUrl
                 /\ event'.image = HeldPayload
         /\ (~IsNull(videoUrl) /\ resultUrl' # resultUrl) => IsNull(videoUrl')
       ]_vars

\* The video of the composite with payload BBBB has been delivered.
C31_Witness ==
  /\ event.op = "AnimateSettled" /\ event.stage = "done" /\ event.ok
  /\ event.image = Some(<<"BBBB">>)
  /\ resultUrl = Some(<<"data", ":", "image/png", ";", "base64", ",", "BBBB">>)
  /\ videoUrl = Some(<<"blob", ":", "video-bytes">>)

\* hasKey goes from true to false in this step for a reason the handlers
\* give: a failure reported as API_KEY_INVALID, or Change API Key.
KeyReset ==
  \/ /\ event'.op \in {"GenerateSettled", "AnimateSettled"}
     /\ ~event'.result.ok
     /\ event'.result.message = API_KEY_INVALID
  \/ event'.op = "ChangeKey"

\* C32: hasKey, set to true by a key selection that completed, goes back to
\* false only through a failure reported as API_KEY_INVALID or through Change
\* API Key; the mount effect's check answering false after the selection
\* does not overwrite it.
C32_ConnectNotOverwritten ==
  [][ (event.op = "ConnectSettled" /\ event.resolved /\ hasKey /\ ~hasKey')
        => KeyReset
    ]_vars

\* The failure the event reports has no entity-not-found signature in what
\* was raised: a refusal, an empty answer, a transport error, a missing
\* locator.
NotAuthenticationShaped(e) ==
  /\ e.op \in {"GenerateSettled", "AnimateSettled"}
  /\ ~e.result.ok
  /\ ~IsNull(e.raised)
  /\ ~Includes(Get(e.raised), EntityNotFound)

\* The answer is a content refusal: text and no image.
ContentRefusal(e) ==
  /\ e.op = "GenerateSettled"
  /\ e.outcome.kind = "response"
  /\ TextOnlyParts(ResponseParts(e.outcome.candidates))

\* C33: a failure that is not authentication-shaped (a content refusal, an
\* empty answer, a transport error, a missing locator) leaves hasKey as it
\* was, in handleGenerate and in handleAnimate.
C33_OtherFailuresKeepKey ==
  [][ (NotAuthenticationShaped(event') \/ ContentRefusal(event'))
        => hasKey' = hasKey
    ]_vars

\* C34: no composition request is accepted while an animation is in flight:
\* status = GENERATING and isAnimating never hold together, and no image call
\* is in flight together with a video job.
C34_NoCompositionWhileAnimating ==
  /\ ~(status = "GENERATING" /\ isAnimating)
  /\ ~(composites > 0 /\ videos # <<>>)
  /\ (event.op = "ClickGenerate" /\ event.accepted)
       => ~isAnimating /\ videos = <<>>

\* With both assets and a description in place, a press of Generate during
\* an animation has been turned down.
C34_Witness ==
  /\ isAnimating
  /\ Len(videos) = 1
  /\ MainScreen /\ GenerateGuard
  /\ status = "SUCCESS"
  /\ event = RejectedClick("ClickGenerate")

\* C35: status is GENERATING exactly while the image call is in flight, and,
\* the call settling sooner or later, every GENERATING state is followed by
\* SUCCESS or ERROR.
C35_CompositionSettles ==
  /\ [](status = "GENERATING" <=> composites > 0)
  /\ (status = "GENERATING") ~> (status \in {"SUCCESS", "ERROR"})

\* A composition has settled in SUCCESS.
C35_Witness ==
  /\ event.op = "GenerateSettled"
  /\ event.prior.status = "GENERATING"
  /\ event.result.ok
  /\ status = "SUCCESS"
  /\ composites = 0

\* C36: whenever status is ERROR an error notice is held, and an accepted
\* composition or animation request clears the notice held before.
C36_ErrorHasNotice ==
  /\ status = "ERROR" => ~IsNull(errorMsg) /\ Get(errorMsg) # <<>>
  /\ (event.op \in {"ClickGenerate", "ClickAnimate"} /\ event.accepted)
       => IsNull(errorMsg)

\* A request made in ERROR has been accepted and the notice is gone.
C36_Witness ==
  /\ event.op = "ClickGenerate" /\ event.accepted
  /\ event.prior.status = "ERROR" /\ event.prior.notice
  /\ status = "GENERATING"
  /\ IsNull(errorMsg)

\* C37: the image bytes a job is submitted with are the payload of the first
\* inline image of the answer the held composite came from, and the mime type
\* submitted is the one written into the result handle, image/png.
C37_PayloadRoundTrip ==
  [][ (event'.op = "ClickAnimate" /\ event'.accepted)
        => /\ event'.request.mimeType = <<"image/png">>
           /\ \E p \in Payloads : event'.request.imageBytes = Some(<<p>>)
           /\ (event.op = "GenerateSettled" /\ InlineAnswer(event.outcome))
                => event'.request.imageBytes
                     = Some(<<FirstPayload(event.outcome)>>)
    ]_vars

\* A job has been submitted with the payload BBBB, which came second in its
\* answer, after a text part.
C37_Witness ==
  /\ event.op = "ClickAnimate" /\ event.accepted
  /\ event.request.imageBytes = Some(<<"BBBB">>)
  /\ event.request.mimeType = <<"image/png">>
  /\ Len(videos) = 1 /\ videos[1].pc = "submit"

====
